---- MODULE Spec2Model ----
(***************************************************************************)
(* Model of src/server.js: the two Server-Sent-Events status streamers     *)
(* (GET /events/:taskId and GET /fashn/events/:id) and the job submission  *)
(* handler POST /image-to-3d.                                              *)
(***************************************************************************)
EXTENDS Integers, Sequences, FiniteSets, TLC

VARIABLES
  session,   \* the stream sessions, one record per run of an SSE route handler
  pc,        \* position of the request/response handler: idle, await, done
  req,       \* the inbound request being handled
  upstream,  \* the calls made to a provider by the request/response handler
  settled,   \* how the awaited provider call settled
  res        \* the response sent to the client

vars == <<session, pc, req, upstream, settled, res>>

(***************************************************************************)
(* Bounds                                                                  *)
(***************************************************************************)
\* number of interval callbacks modelled, over all stream sessions
MaxTicks == 2

\* the stream sessions that may be open at the same time
Sessions == {"s1", "s2"}

(***************************************************************************)
(* Upstream providers as seen by the streamers                             *)
(***************************************************************************)
Providers == {"meshy", "fashn"}

\* data.status is undefined when the envelope carries no status
Missing == "undefined"

Statuses == {"IN_PROGRESS", "SUCCEEDED", "FAILED", "CANCELED",
             "completed", "failed", Missing}

\* e.message of a rejected axios.get
Messages == {"timeout", "Request failed with status code 502"}

\* JavaScript truthiness of data.status
Truthy(st) == st # Missing /\ st # ""

TerminalSet(p) ==
  IF p = "meshy" THEN {"SUCCEEDED", "FAILED", "CANCELED"}
                 ELSE {"completed", "failed"}

\* variant: one terminal set shared by both streamers
IsTerminalShared(p, st) ==
  Truthy(st) /\ st \in TerminalSet("meshy") \cup TerminalSet("fashn")

\* data.status && [...].includes(data.status)
IsTerminal(p, st) == Truthy(st) /\ st \in TerminalSet(p)

(***************************************************************************)
(* One stream session: the closure of one run of the route handler         *)
(***************************************************************************)
NoSession ==
  [open |-> FALSE, provider |-> "meshy", stopped |-> FALSE, interval |-> FALSE,
   ticks |-> 0, issued |-> 0, inflight |-> {}, completed |-> <<>>,
   events |-> <<>>, ended |-> 0, closed |-> FALSE]

\* variant: the route handler also polls once before arming the timer
SubscribeAndPoll(p) ==
  [NoSession EXCEPT !.open = TRUE, !.provider = p, !.interval = TRUE,
                    !.issued = 1, !.inflight = {1}]

\* the route handler: headers are flushed, stopped = false, setInterval(...)
Subscribe(p) ==
  [NoSession EXCEPT !.open = TRUE, !.provider = p, !.interval = TRUE]

\* an SSE frame written with res.write; late is TRUE when the write happens
\* after res.end() or after the subscriber went away
Event(r, kind, id, body) ==
  [kind |-> kind, id |-> id, body |-> body, late |-> (r.ended > 0 \/ r.closed)]

\* variant: the guard of the callback is inverted
TickCallbackInverted(r) ==
  IF ~r.stopped
    THEN [r EXCEPT !.ticks = @ + 1]
    ELSE [r EXCEPT !.ticks = @ + 1, !.issued = @ + 1,
                   !.inflight = @ \cup {r.issued + 1}]

\* the interval callback up to its await: if (stopped) return; axios.get(...)
TickCallback(r) ==
  IF r.stopped
    THEN [r EXCEPT !.ticks = @ + 1]
    ELSE [r EXCEPT !.ticks = @ + 1, !.issued = @ + 1,
                   !.inflight = @ \cup {r.issued + 1}]

\* the events of es issued before, respectively after, fetch id
IssuedBefore(es, id) == SelectSeq(es, LAMBDA e : e.id < id)
IssuedAfter(es, id)  == SelectSeq(es, LAMBDA e : e.id > id)

\* variant: results are written in the order the fetches were issued
FetchResolvedInIssueOrder(r, id, st) ==
  LET data == Event(r, "data", id, st)
      fin  == Event(r, "finished", id, st)
      done == [r EXCEPT !.inflight = @ \ {id},
                        !.completed = Append(@, [id |-> id, ok |-> TRUE, out |-> st])]
      new  == IF IsTerminal(r.provider, st) THEN <<data, fin>> ELSE <<data>>
      es   == IssuedBefore(r.events, id) \o new \o IssuedAfter(r.events, id)
  IN IF IsTerminal(r.provider, st)
       THEN [done EXCEPT !.events = es,
                         !.interval = FALSE, !.stopped = TRUE,
                         !.ended = @ + 1]
       ELSE [done EXCEPT !.events = es]

\* the continuation of the await when axios.get resolved with envelope status st
FetchResolved(r, id, st) ==
  LET data == Event(r, "data", id, st)
      fin  == Event(r, "finished", id, st)
      done == [r EXCEPT !.inflight = @ \ {id},
                        !.completed = Append(@, [id |-> id, ok |-> TRUE, out |-> st])]
  IN IF IsTerminal(r.provider, st)
       THEN [done EXCEPT !.events = @ \o <<data, fin>>,
                         !.interval = FALSE, !.stopped = TRUE,
                         !.ended = @ + 1]
       ELSE [done EXCEPT !.events = Append(@, data)]

\* the catch block when axios.get rejected with message m
FetchRejected(r, id, m) ==
  [r EXCEPT !.inflight = @ \ {id},
            !.completed = Append(@, [id |-> id, ok |-> FALSE, out |-> m]),
            !.events = Append(@, Event(r, "error", id, m)),
            !.interval = FALSE, !.stopped = TRUE, !.ended = @ + 1]

\* variant: the close handler tears nothing down
CloseHandlerNoTeardown(r) == [r EXCEPT !.closed = TRUE]

\* req.on("close"): stopped = true; clearInterval(interval)
CloseHandler(r) ==
  [r EXCEPT !.stopped = TRUE, !.interval = FALSE, !.closed = TRUE]

(***************************************************************************)
(* Actions of the streamers                                                *)
(***************************************************************************)
TotalTicks == session["s1"].ticks + session["s2"].ticks

Connect(s, p) ==
  /\ ~session[s].open
  /\ session' = [session EXCEPT ![s] = Subscribe(p)]
  /\ UNCHANGED <<pc, req, upstream, settled, res>>

Tick(s) ==
  /\ session[s].open
  /\ session[s].interval
  /\ TotalTicks < MaxTicks
  /\ session' = [session EXCEPT ![s] = TickCallback(@)]
  /\ UNCHANGED <<pc, req, upstream, settled, res>>

Resolve(s, id, st) ==
  /\ id \in session[s].inflight
  /\ session' = [session EXCEPT ![s] = FetchResolved(@, id, st)]
  /\ UNCHANGED <<pc, req, upstream, settled, res>>

Reject(s, id, m) ==
  /\ id \in session[s].inflight
  /\ session' = [session EXCEPT ![s] = FetchRejected(@, id, m)]
  /\ UNCHANGED <<pc, req, upstream, settled, res>>

\* variant: stopped and interval are shared by all open sessions
DisconnectShared(s) ==
  /\ session[s].open
  /\ ~session[s].closed
  /\ session' = [t \in Sessions |->
                   IF t = s \/ session[t].open
                     THEN CloseHandler(session[t]) ELSE session[t]]
  /\ UNCHANGED <<pc, req, upstream, settled, res>>

Disconnect(s) ==
  /\ session[s].open
  /\ ~session[s].closed
  /\ session' = [session EXCEPT ![s] = CloseHandler(@)]
  /\ UNCHANGED <<pc, req, upstream, settled, res>>

(***************************************************************************)
(* JavaScript values of request bodies and payloads.  A string is the      *)
(* sequence of its characters.                                             *)
(***************************************************************************)
Str(cs)   == [t |-> "string",    s |-> cs,     n |-> 0, b |-> FALSE]
Bool(x)   == [t |-> "boolean",   s |-> <<>>,   n |-> 0, b |-> x]
Num(k)    == [t |-> "number",    s |-> <<>>,   n |-> k, b |-> FALSE]
NaN       == [t |-> "number",    s |-> <<"N", "a", "N">>, n |-> 0, b |-> FALSE]
Undefined == [t |-> "undefined", s |-> <<>>,   n |-> 0, b |-> FALSE]

\* JavaScript truthiness of a value
TruthyValue(v) ==
  CASE v.t = "string"  -> v.s # <<>>
    [] v.t = "boolean" -> v.b
    [] v.t = "number"  -> v # NaN /\ v.n # 0
    [] OTHER           -> FALSE

Digits == <<"0", "1", "2", "3", "4", "5", "6", "7", "8", "9">>

DigitValue(c) == (CHOOSE i \in 1..10 : Digits[i] = c) - 1

IsDigit(c) == \E i \in 1..10 : Digits[i] = c

RECURSIVE DecimalValue(_)
DecimalValue(cs) ==
  IF cs = <<>> THEN 0
  ELSE 10 * DecimalValue(SubSeq(cs, 1, Len(cs) - 1)) + DigitValue(cs[Len(cs)])

\* Number(v)
Number(v) ==
  CASE v.t = "number"    -> v
    [] v.t = "boolean"   -> Num(IF v.b THEN 1 ELSE 0)
    [] v.t = "undefined" -> NaN
    [] v.t = "string"    ->
         IF v.s = <<>> THEN Num(0)
         ELSE IF \A i \in 1..Len(v.s) : IsDigit(v.s[i]) THEN Num(DecimalValue(v.s))
         ELSE IF v.s[1] = "-" /\ Len(v.s) > 1
                 /\ \A i \in 2..Len(v.s) : IsDigit(v.s[i])
           THEN Num(0 - DecimalValue(SubSeq(v.s, 2, Len(v.s))))
         ELSE NaN

(***************************************************************************)
(* Buffer.toString("base64")                                               *)
(***************************************************************************)
Base64Alphabet ==
  <<"A", "B", "C", "D", "E", "F", "G", "H", "I", "J", "K", "L", "M",
    "N", "O", "P", "Q", "R", "S", "T", "U", "V", "W", "X", "Y", "Z",
    "a", "b", "c", "d", "e", "f", "g", "h", "i", "j", "k", "l", "m",
    "n", "o", "p", "q", "r", "s", "t", "u", "v", "w", "x", "y", "z",
    "0", "1", "2", "3", "4", "5", "6", "7", "8", "9", "+", "/">>

Sextet(k) == Base64Alphabet[k + 1]

RECURSIVE Base64(_)
Base64(buf) ==
  IF Len(buf) = 0 THEN <<>>
  ELSE IF Len(buf) = 1 THEN
    <<Sextet(buf[1] \div 4), Sextet((buf[1] % 4) * 16), "=", "=">>
  ELSE IF Len(buf) = 2 THEN
    <<Sextet(buf[1] \div 4), Sextet((buf[1] % 4) * 16 + buf[2] \div 16),
      Sextet((buf[2] % 16) * 4), "=">>
  ELSE
    <<Sextet(buf[1] \div 4), Sextet((buf[1] % 4) * 16 + buf[2] \div 16),
      Sextet((buf[2] % 16) * 4 + buf[3] \div 64), Sextet(buf[3] % 64)>>
    \o Base64(SubSeq(buf, 4, Len(buf)))

\* `data:${mime};base64,${base64}`
DataURI(mime, buf) ==
  <<"d", "a", "t", "a", ":">> \o mime
    \o <<";", "b", "a", "s", "e", "6", "4", ",">> \o Base64(buf)

(***************************************************************************)
(* Inbound requests of POST /image-to-3d                                   *)
(***************************************************************************)
\* longest uploaded buffer modelled, in bytes
MaxFileBytes == 3

Bytes == {77, 255}

Buffers == UNION {[1..n -> Bytes] : n \in 0..MaxFileBytes}

ImagePng  == <<"i", "m", "a", "g", "e", "/", "p", "n", "g">>
ImageJpeg == <<"i", "m", "a", "g", "e", "/", "j", "p", "e", "g">>

\* req.file as multer leaves it; present is FALSE when no file was uploaded
NoFile == [present |-> FALSE, mimetype |-> <<>>, buffer |-> <<>>]

Files == {NoFile} \cup
  {[present |-> TRUE, mimetype |-> m, buffer |-> b] :
     m \in {<<>>, ImageJpeg}, b \in Buffers}

UrlXY ==
  <<"h", "t", "t", "p", "s", ":", "/", "/", "x", "/", "y", ".", "p", "n", "g">>

STrue  == Str(<<"t", "r", "u", "e">>)
SFalse == Str(<<"f", "a", "l", "s", "e">>)

\* the body fields modelled; a field that is absent maps to Undefined
Fields ==
  {"image_url", "should_texture", "should_remesh", "target_polycount", "ai_model"}

FieldValues(k) ==
  CASE k = "image_url"        -> {Undefined, Str(UrlXY), Str(<<>>)}
    [] k = "should_texture"   -> {Undefined, STrue, SFalse, Bool(TRUE), Bool(FALSE)}
    [] k = "should_remesh"    -> {Undefined, STrue, Str(<<"y", "e", "s">>)}
    [] k = "target_polycount" -> {Undefined, Str(<<"3", "0">>), Num(30), Str(<<"a", "b">>)}
    [] OTHER                  -> {Undefined, Str(<<"v", "5">>)}

\* req.body is undefined when no body parser filled it
NoBody == [present |-> FALSE, fields |-> [k \in Fields |-> Undefined]]

Bodies == {NoBody} \cup
  {[present |-> TRUE,
    fields |-> [image_url |-> a, should_texture |-> b, should_remesh |-> c,
                target_polycount |-> d, ai_model |-> e]] :
     a \in FieldValues("image_url"), b \in FieldValues("should_texture"),
     c \in FieldValues("should_remesh"), d \in FieldValues("target_polycount"),
     e \in FieldValues("ai_model")}

\* a multipart request carries text fields only; a JSON request carries no file
Requests ==
  {rq \in [file : Files, body : Bodies] :
     rq.file.present =>
       /\ rq.body.present
       /\ \A k \in Fields : rq.body.fields[k].t \in {"string", "undefined"}}

(***************************************************************************)
(* POST /image-to-3d                                                       *)
(***************************************************************************)
booleanFields ==
  {"should_remesh", "should_texture", "enable_pbr", "is_a_t_pose", "moderation"}

numberFields == {"target_polycount"}

\* variant: the URL branch tests that the key is present, not its truthiness
ImageSourceKeyPresent(file, body) ==
  IF file.present
    THEN Str(DataURI(IF file.mimetype # <<>> THEN file.mimetype ELSE ImagePng,
                     file.buffer))
  ELSE IF body.present /\ body.fields["image_url"] # Undefined
    THEN body.fields["image_url"]
  ELSE Undefined

\* the image source of lines 48-57; Undefined stands for the 400 branch
ImageSource(file, body) ==
  IF file.present
    THEN Str(DataURI(IF file.mimetype # <<>> THEN file.mimetype ELSE ImagePng,
                     file.buffer))
  ELSE IF body.present /\ TruthyValue(body.fields["image_url"])
    THEN body.fields["image_url"]
  ELSE Undefined

\* variant: every field that is not boolean is converted to a number
CoerceNumberByDefault(k, v) ==
  IF k \in booleanFields THEN Bool(v = STrue \/ v = Bool(TRUE))
  ELSE Number(v)

\* the body of the loop over Object.keys(req.body)
Coerce(k, v) ==
  IF k \in booleanFields THEN Bool(v = STrue \/ v = Bool(TRUE))
  ELSE IF k \in numberFields THEN Number(v)
  ELSE v

\* the payload sent to Meshy: image source, coercion loop, default
Payload(file, body) ==
  LET p0 == [k \in Fields |->
               IF k = "image_url" THEN ImageSource(file, body) ELSE Undefined]
      p1 == [k \in Fields |->
               IF body.fields[k] # Undefined
                 THEN Coerce(k, body.fields[k]) ELSE p0[k]]
  IN [p1 EXCEPT !["should_texture"] = IF @ = Undefined THEN Bool(TRUE) ELSE @]

NoRequest == [route |-> "none", file |-> NoFile, body |-> NoBody]

\* no provider call has settled
NotSettled == [kind |-> "pending", data |-> "none", message |-> "none"]

NoResponse == [sent |-> 0, status |-> 0, kind |-> "none", body |-> "none"]

\* res.status(c).json({ error: e })
ErrorResponse(c, e) == [sent |-> res.sent + 1, status |-> c, kind |-> "error", body |-> e]

\* res.json(data)
JsonResponse(data) == [sent |-> res.sent + 1, status |-> 200, kind |-> "json", body |-> data]

\* the rejections of an axios call: err.response?.data and err.message
UpstreamErrors ==
  {[data |-> "none", message |-> "Network Error"],
   [data |-> "", message |-> "Request failed with status code 502"],
   [data |-> "Invalid image", message |-> "Request failed with status code 400"]}

\* variant: the catch block reports the message only
ErrorBodyMessageOnly(err) == err.message

\* err.response?.data || err.message
ErrorBody(err) ==
  IF err.data # "none" /\ err.data # "" THEN err.data ELSE err.message

\* the handler up to its await, or to its early return
PostImageTo3D(file, body) ==
  /\ pc = "idle"
  /\ req' = [route |-> "POST /image-to-3d", file |-> file, body |-> body]
  /\ IF ImageSource(file, body) = Undefined
       THEN /\ res' = ErrorResponse(400, "Provide an image file or image_url")
            /\ pc' = "done"
            /\ UNCHANGED upstream
       ELSE /\ upstream' = Append(upstream,
                 [url |-> "https://api.meshy.ai/openapi/v1/image-to-3d",
                  payload |-> Payload(file, body)])
            /\ pc' = "await"
            /\ UNCHANGED res
  /\ UNCHANGED <<session, settled>>

\* the await resolved: res.json(response.data)
UpstreamResolve(data) ==
  /\ pc = "await"
  /\ res' = JsonResponse(data)
  /\ settled' = [kind |-> "resolved", data |-> data, message |-> "none"]
  /\ pc' = "done"
  /\ UNCHANGED <<session, req, upstream>>

\* the await rejected: the catch block
UpstreamReject(err) ==
  /\ pc = "await"
  /\ res' = ErrorResponse(500, ErrorBody(err))
  /\ settled' = [kind |-> "rejected", data |-> err.data, message |-> err.message]
  /\ pc' = "done"
  /\ UNCHANGED <<session, req, upstream>>

(***************************************************************************)
(* POST /fashn/tryon                                                       *)
(***************************************************************************)
\* req.files.person[0] and req.files.garment[0] as multer leaves them
TryonFiles == {NoFile} \cup
  {[present |-> TRUE, mimetype |-> m, buffer |-> <<77>>] : m \in {<<>>, ImagePng}}

\* the text fields of the multipart body; a field that is absent is Undefined
TryonFieldValues(k) ==
  CASE k = "category"          -> {Undefined, Str(<<"t", "o", "p", "s">>), Str(<<>>)}
    [] k = "segmentation_free" -> {Undefined, STrue, SFalse, Str(<<"y", "e", "s">>)}
    [] k = "mode"              -> {Undefined, Str(<<"q", "u", "a", "l", "i", "t", "y">>)}
    [] k = "seed"              -> {Undefined, Str(<<"7">>), Str(<<"a", "b">>)}
    [] k = "num_samples"       ->
         {Undefined, Str(<<"0">>), Str(<<"2">>), Str(<<"1", "0">>), Str(<<"a", "b">>)}
    [] k = "return_base64"     -> {Undefined, STrue}
    [] k = "restore_clothes"   -> {Undefined, STrue}
    [] OTHER                   -> {Undefined}

TryonBodies ==
  {[category |-> a, segmentation_free |-> b, moderation_level |-> Undefined,
    garment_photo_type |-> Undefined, mode |-> c, seed |-> d, num_samples |-> e,
    output_format |-> Undefined, return_base64 |-> f, restore_clothes |-> g] :
     a \in TryonFieldValues("category"), b \in TryonFieldValues("segmentation_free"),
     c \in TryonFieldValues("mode"), d \in TryonFieldValues("seed"),
     e \in TryonFieldValues("num_samples"), f \in TryonFieldValues("return_base64"),
     g \in TryonFieldValues("restore_clothes")}

TryonRequests == [person : TryonFiles, garment : TryonFiles, body : TryonBodies]

\* variant: a value that is neither boolean spelling is passed on as it is
boolOrSame(v, d) ==
  IF v = STrue \/ v = Bool(TRUE) THEN Bool(TRUE)
  ELSE IF v = SFalse \/ v = Bool(FALSE) THEN Bool(FALSE)
  ELSE IF v = Undefined THEN Bool(d) ELSE v

\* const bool = (v, d=false) => ...
bool(v, d) ==
  IF v = STrue \/ v = Bool(TRUE) THEN Bool(TRUE)
  ELSE IF v = SFalse \/ v = Bool(FALSE) THEN Bool(FALSE)
  ELSE Bool(d)

\* const num = (v) => (v === undefined ? undefined : Number(v))
num(v) == IF v = Undefined THEN Undefined ELSE Number(v)

\* a ?? d
Nullish(a, d) == IF a = Undefined THEN d ELSE a

\* a || d
OrElse(a, d) == IF TruthyValue(a) THEN a ELSE d

\* Math.max(a, b) and Math.min(a, b) of numbers; NaN if either is NaN
MathMax(a, b) ==
  IF a = NaN \/ b = NaN THEN NaN ELSE Num(IF a.n >= b.n THEN a.n ELSE b.n)

MathMin(a, b) ==
  IF a = NaN \/ b = NaN THEN NaN ELSE Num(IF a.n <= b.n THEN a.n ELSE b.n)

\* Math.min(Math.max(num(req.body.num_samples) ?? 1, 1), 4)
NumSamples(v) == MathMin(MathMax(Nullish(num(v), Num(1)), Num(1)), Num(4))

\* the payload of lines 113-129
TryonPayload(person, garment, body) ==
  [model_name |-> Str(<<"t", "r", "y", "o", "n", "-", "v", "1", ".", "6">>),
   model_image |->
     Str(DataURI(IF person.mimetype # <<>> THEN person.mimetype ELSE ImageJpeg,
                 person.buffer)),
   garment_image |->
     Str(DataURI(IF garment.mimetype # <<>> THEN garment.mimetype ELSE ImageJpeg,
                 garment.buffer)),
   category |-> OrElse(body.category, Str(<<"a", "u", "t", "o">>)),
   segmentation_free |-> bool(body.segmentation_free, TRUE),
   moderation_level |->
     OrElse(body.moderation_level,
            Str(<<"p", "e", "r", "m", "i", "s", "s", "i", "v", "e">>)),
   garment_photo_type |-> OrElse(body.garment_photo_type, Str(<<"a", "u", "t", "o">>)),
   mode |-> OrElse(body.mode, Str(<<"b", "a", "l", "a", "n", "c", "e", "d">>)),
   seed |-> Nullish(num(body.seed), Num(42)),
   num_samples |-> NumSamples(body.num_samples),
   output_format |-> OrElse(body.output_format, Str(<<"p", "n", "g">>)),
   return_base64 |-> bool(body.return_base64, FALSE)]

\* variant: the presence check is skipped when only one file is missing
BothMissing(person, garment) == ~person.present /\ ~garment.present

\* !personFile || !garmentFile
FileMissing(person, garment) == ~person.present \/ ~garment.present

\* the handler up to its await, or to its early return
PostFashnTryon(person, garment, body) ==
  /\ pc = "idle"
  /\ req' = [route |-> "POST /fashn/tryon", person |-> person,
             garment |-> garment, body |-> body]
  /\ IF FileMissing(person, garment)
       THEN /\ res' = ErrorResponse(400, "Please upload both person and garment images.")
            /\ pc' = "done"
            /\ UNCHANGED upstream
       ELSE /\ upstream' = Append(upstream,
                 [url |-> "https://api.fashn.ai/v1/run",
                  payload |-> TryonPayload(person, garment, body)])
            /\ pc' = "await"
            /\ UNCHANGED res
  /\ UNCHANGED <<session, settled>>

(***************************************************************************)
(* GET /image-to-3d/:taskId and GET /fashn/tryon/:id                       *)
(***************************************************************************)
\* req.params.taskId and req.params.id
TaskIds == {<<"t", "-", "1">>, <<"a", "/", "b">>, <<"?">>}

\* the characters encodeURIComponent escapes, among those modelled
Escaped(c) ==
  CASE c = "/" -> <<"%", "2", "F">>
    [] c = "?" -> <<"%", "3", "F">>
    [] c = "#" -> <<"%", "2", "3">>
    [] c = "%" -> <<"%", "2", "5">>
    [] OTHER   -> <<c>>

RECURSIVE encodeURIComponent(_)
encodeURIComponent(cs) ==
  IF cs = <<>> THEN <<>>
  ELSE Escaped(cs[1]) \o encodeURIComponent(SubSeq(cs, 2, Len(cs)))

\* the status handlers up to their await
GetImageTo3D(taskId) ==
  /\ pc = "idle"
  /\ req' = [route |-> "GET /image-to-3d/:taskId", id |-> taskId]
  /\ upstream' = Append(upstream,
       [url |-> <<"https://api.meshy.ai/openapi/v1/image-to-3d/">>
                  \o encodeURIComponent(taskId),
        payload |-> "none"])
  /\ pc' = "await"
  /\ UNCHANGED <<session, settled, res>>

GetFashnTryon(id) ==
  /\ pc = "idle"
  /\ req' = [route |-> "GET /fashn/tryon/:id", id |-> id]
  /\ upstream' = Append(upstream,
       [url |-> <<"https://api.fashn.ai/v1/status/">> \o encodeURIComponent(id),
        payload |-> "none"])
  /\ pc' = "await"
  /\ UNCHANGED <<session, settled, res>>

(***************************************************************************)
(* GET /download                                                           *)
(***************************************************************************)
\* longest url query value modelled, in characters
MaxUrlLen == 4

UrlAlphabet == {"/", "y", "?", "#", "%", "2", "3"}

\* req.query.url: Undefined when the parameter is missing
QueryUrls ==
  {Undefined} \cup {Str(cs) : cs \in UNION {[1..n -> UrlAlphabet] : n \in 0..MaxUrlLen}}

HexDigits ==
  <<"0", "1", "2", "3", "4", "5", "6", "7", "8", "9", "A", "B", "C", "D", "E", "F">>

IsHex(c) == \E i \in 1..16 : HexDigits[i] = c

HexValue(c) == (CHOOSE i \in 1..16 : HexDigits[i] = c) - 1

\* the character of a code unit, for the codes the modelled escapes produce
CharOf(code) ==
  CASE code = 34 -> "\""
    [] code = 35 -> "#"
    [] code = 37 -> "%"
    [] code = 47 -> "/"
    [] code = 50 -> "2"
    [] code = 51 -> "3"
    [] code = 63 -> "?"
    [] OTHER     -> "."

\* String(v) of a query value
ToChars(v) ==
  IF v = Undefined THEN <<"u", "n", "d", "e", "f", "i", "n", "e", "d">> ELSE v.s

\* decodeURIComponent: ok is FALSE when it throws URIError
RECURSIVE decodeURIComponent(_)
decodeURIComponent(cs) ==
  IF cs = <<>> THEN [ok |-> TRUE, s |-> <<>>]
  ELSE IF cs[1] = "%" THEN
    IF Len(cs) >= 3 /\ IsHex(cs[2]) /\ IsHex(cs[3])
      THEN LET rest == decodeURIComponent(SubSeq(cs, 4, Len(cs)))
           IN [ok |-> rest.ok,
               s  |-> <<CharOf(16 * HexValue(cs[2]) + HexValue(cs[3]))>> \o rest.s]
      ELSE [ok |-> FALSE, s |-> <<>>]
  ELSE LET rest == decodeURIComponent(SubSeq(cs, 2, Len(cs)))
       IN [ok |-> rest.ok, s |-> <<cs[1]>> \o rest.s]

\* cs.split(c)[0]
RECURSIVE BeforeFirst(_, _)
BeforeFirst(cs, c) ==
  IF cs = <<>> \/ cs[1] = c THEN <<>>
  ELSE <<cs[1]>> \o BeforeFirst(SubSeq(cs, 2, Len(cs)), c)

RECURSIVE StripTrailingSlashes(_)
StripTrailingSlashes(cs) ==
  IF cs # <<>> /\ cs[Len(cs)] = "/"
    THEN StripTrailingSlashes(SubSeq(cs, 1, Len(cs) - 1)) ELSE cs

RECURSIVE AfterLastSlash(_)
AfterLastSlash(cs) ==
  IF cs = <<>> \/ cs[Len(cs)] = "/" THEN <<>>
  ELSE AfterLastSlash(SubSeq(cs, 1, Len(cs) - 1)) \o <<cs[Len(cs)]>>

\* path.basename(p)
basename(p) == AfterLastSlash(StripTrailingSlashes(p))

\* path.basename(decoded.split("?")[0])
Filename(decoded) == basename(BeforeFirst(decoded, "?"))

\* variant: only an empty url counts as missing
UrlEmpty(url) == url = Str(<<>>)

\* !url
UrlMissing(url) == ~TruthyValue(url)

\* the rejections of the remote fetch: err.message
DownloadErrors == {"Network Error", ""}

\* the handler up to its await, or to its 400 or to a thrown URIError
GetDownload(url) ==
  /\ pc = "idle"
  /\ req' = [route |-> "GET /download", url |-> url]
  /\ IF UrlMissing(url)
       THEN /\ res' = [sent |-> res.sent + 1, status |-> 400, kind |-> "text",
                       body |-> "Missing url query param"]
            /\ pc' = "done"
            /\ UNCHANGED upstream
       ELSE IF ~decodeURIComponent(ToChars(url)).ok
         THEN /\ res' = ErrorResponse(500, "URI malformed")
              /\ pc' = "done"
              /\ UNCHANGED upstream
         ELSE /\ upstream' = Append(upstream,
                   [url |-> decodeURIComponent(ToChars(url)).s, payload |-> "none"])
              /\ pc' = "await"
              /\ UNCHANGED res
  /\ UNCHANGED <<session, settled>>

\* the remote fetch resolved: Content-Disposition is set and the body is piped
DownloadResolve ==
  /\ pc = "await"
  /\ res' = [sent |-> res.sent + 1, status |-> 200, kind |-> "stream",
             body |-> "remote", filename |-> Filename(upstream[1].url)]
  /\ settled' = [kind |-> "resolved", data |-> "remote", message |-> "none"]
  /\ pc' = "done"
  /\ UNCHANGED <<session, req, upstream>>

\* the remote fetch rejected: err.message || "download failed"
DownloadReject(m) ==
  /\ pc = "await"
  /\ res' = ErrorResponse(500, IF m # "" THEN m ELSE "download failed")
  /\ settled' = [kind |-> "rejected", data |-> "none", message |-> m]
  /\ pc' = "done"
  /\ UNCHANGED <<session, req, upstream>>

Init ==
  /\ session = [s \in Sessions |-> NoSession]
  /\ pc = "idle"
  /\ req = NoRequest
  /\ upstream = <<>>
  /\ settled = NotSettled
  /\ res = NoResponse

Next ==
  \/ \E s \in Sessions, p \in Providers : Connect(s, p)
  \/ \E s \in Sessions : Tick(s)
  \/ \E s \in Sessions, id \in 1..MaxTicks, st \in Statuses : Resolve(s, id, st)
  \/ \E s \in Sessions, id \in 1..MaxTicks, m \in Messages : Reject(s, id, m)
  \/ \E s \in Sessions : Disconnect(s)

Spec == Init /\ [][Next]_vars

\* the request/response handlers
SubmitNext ==
  \/ pc = "idle" /\ \E rq \in Requests : PostImageTo3D(rq.file, rq.body)
  \/ pc = "idle" /\ \E rq \in TryonRequests :
                       PostFashnTryon(rq.person, rq.garment, rq.body)
  \/ \E id \in TaskIds : GetImageTo3D(id)
  \/ \E id \in TaskIds : GetFashnTryon(id)
  \/ \E data \in {"task-123"} : UpstreamResolve(data)
  \/ \E err \in UpstreamErrors : UpstreamReject(err)

SubmitSpec == Init /\ [][SubmitNext]_vars

\* the statuses with which each provider reports a task as final
ProviderFinal(p) ==
  IF p = "meshy" THEN {"SUCCEEDED", "FAILED", "CANCELED"}
                 ELSE {"completed", "failed"}

\* a status fetch resolves; once the last modelled interval has elapsed the
\* provider reports the task as final
LiveResolve(s, id, st) ==
  /\ session[s].ticks = MaxTicks => st \in ProviderFinal(session[s].provider)
  /\ Resolve(s, id, st)

\* an issued fetch settles, one way or the other
Settle(s, id) ==
  \/ \E st \in Statuses : LiveResolve(s, id, st)
  \/ \E m \in Messages : Reject(s, id, m)

\* one stream session whose timer keeps firing and whose fetches all settle
LiveNext ==
  \/ \E p \in Providers : Connect("s1", p)
  \/ Tick("s1")
  \/ \E id \in 1..MaxTicks, st \in Statuses : LiveResolve("s1", id, st)
  \/ \E id \in 1..MaxTicks, m \in Messages : Reject("s1", id, m)
  \/ Disconnect("s1")

LiveSpec ==
  /\ Init
  /\ [][LiveNext]_vars
  /\ WF_vars(Tick("s1"))
  /\ \A id \in 1..MaxTicks : WF_vars(Settle("s1", id))

\* the download relay
DownloadNext ==
  \/ pc = "idle" /\ \E url \in QueryUrls : GetDownload(url)
  \/ DownloadResolve
  \/ \E m \in DownloadErrors : DownloadReject(m)

DownloadSpec == Init /\ [][DownloadNext]_vars
(***************************************************************************)
(* Properties of the streamers                                             *)
(***************************************************************************)
HasEvent(r, kind) == \E i \in 1..Len(r.events) : r.events[i].kind = kind

CountEvents(r, kind) ==
  Cardinality({i \in 1..Len(r.events) : r.events[i].kind = kind})

\* a session is Finished after a disconnect, a terminal status or a failed poll
Finished(r) == r.closed \/ HasEvent(r, "finished") \/ HasEvent(r, "error")

\* C1: once a terminal status has been processed (a finished event was
\* written), the session writes no further event of any kind, so exactly one
\* finished event is ever written.
C1_NoEventAfterTerminal ==
  [][\A s \in Sessions :
       HasEvent(session[s], "finished") =>
         session'[s].events = session[s].events]_vars

\* C2: a session has at most one upstream status fetch outstanding at any time.
C2_AtMostOneOutstanding ==
  \A s \in Sessions : Cardinality(session[s].inflight) <= 1

\* C3: after the subscriber disconnected, the continuation of a fetch that was
\* in flight writes no event and does not end the channel.
C3_DiscardAfterDisconnect ==
  [][\A s \in Sessions :
       session[s].closed =>
         /\ session'[s].events = session[s].events
         /\ session'[s].ended = session[s].ended]_vars

\* C4: a Finished session (disconnected, terminal status processed, or failed
\* poll processed) never issues a new upstream status poll.
C4_NoPollOnceFinished ==
  [][\A s \in Sessions :
       Finished(session[s]) =>
         /\ session'[s].issued = session[s].issued
         /\ session'[s].inflight \subseteq session[s].inflight]_vars

\* C4 witness: the subscriber disconnected after a poll was issued and before
\* any terminal status or failure, and the timer is cancelled.
C4_Witness ==
  \E s \in Sessions :
    /\ session[s].closed
    /\ session[s].issued >= 1
    /\ ~HasEvent(session[s], "finished")
    /\ ~HasEvent(session[s], "error")
    /\ ~session[s].interval

\* C5 as stated: an open session has issued its first fetch at once, before
\* any polling interval has elapsed.
C5_FirstFetchImmediate ==
  \A s \in Sessions : session[s].open => session[s].issued >= 1

\* C5 amended: no fetch is issued when the session is created; the first fetch
\* is issued when the first interval elapses, and one fetch is issued per
\* elapsed interval after that.
C5_OneFetchPerInterval ==
  \A s \in Sessions : session[s].issued = session[s].ticks

\* C5 witness: an Active session two intervals old that has issued two fetches.
C5_Witness ==
  \E s \in Sessions :
    /\ session[s].open
    /\ ~session[s].stopped
    /\ session[s].ticks = 2
    /\ session[s].issued = 2

\* C6: over the life of a session at most one error event is written and the
\* channel is ended at most once.
C6_OneErrorOneClose ==
  \A s \in Sessions :
    /\ CountEvents(session[s], "error") <= 1
    /\ session[s].ended <= 1

\* the step of session s in which a fetch completes
Completes(s) ==
  Len(session'[s].completed) = Len(session[s].completed) + 1

LastCompleted(s) == session'[s].completed[Len(session'[s].completed)]

ClaimedTerminal(p) ==
  IF p = "meshy" THEN {"SUCCEEDED", "FAILED", "CANCELED"}
                 ELSE {"completed", "failed"}

\* C7: a successful fetch of an Active session writes one data event with the
\* envelope; exactly when the status is in the provider's terminal set it
\* writes a finished event with the same envelope next and ends the channel;
\* otherwise the session stays Active with its timer armed.
C7_DataThenFinishedIffTerminal ==
  [][\A s \in Sessions :
       (~session[s].stopped /\ Completes(s) /\ LastCompleted(s).ok) =>
         LET c    == LastCompleted(s)
             data == [kind |-> "data", id |-> c.id, body |-> c.out, late |-> FALSE]
             fin  == [kind |-> "finished", id |-> c.id, body |-> c.out, late |-> FALSE]
         IN IF c.out \in ClaimedTerminal(session[s].provider)
              THEN /\ session'[s].events = session[s].events \o <<data, fin>>
                   /\ session'[s].ended = session[s].ended + 1
                   /\ session'[s].stopped
                   /\ ~session'[s].interval
              ELSE /\ session'[s].events = Append(session[s].events, data)
                   /\ session'[s].ended = session[s].ended
                   /\ ~session'[s].stopped
                   /\ session'[s].interval]_vars

\* C7 witness: a try-on session relayed an envelope without status and one
\* with a status terminal only for the other provider, then finished on
\* "failed".
C7_Witness ==
  \E s \in Sessions :
    /\ session[s].provider = "fashn"
    /\ Len(session[s].events) >= 3
    /\ session[s].events[1].kind = "data"
    /\ session[s].events[1].body \in {Missing, "SUCCEEDED"}
    /\ session[s].events[Len(session[s].events)].kind = "finished"
    /\ session[s].events[Len(session[s].events)].body = "failed"
    /\ session[s].ended = 1

EventIds(r, kind) ==
  [i \in 1..CountEvents(r, kind) |-> SelectSeq(r.events, LAMBDA e : e.kind = kind)[i].id]

ResolvedIds(r) ==
  LET ok == SelectSeq(r.completed, LAMBDA c : c.ok)
  IN [i \in 1..Len(ok) |-> ok[i].id]

\* C8: the data events of a session are in the order in which their polls
\* completed.
C8_DataInCompletionOrder ==
  \A s \in Sessions : EventIds(session[s], "data") = ResolvedIds(session[s])

\* C8 witness: two overlapping polls completed in the reverse of the order
\* they were issued in.
C8_Witness ==
  \E s \in Sessions :
    /\ Len(session[s].completed) = 2
    /\ session[s].completed[1].id = 2
    /\ session[s].completed[2].id = 1
    /\ session[s].completed[1].ok
    /\ session[s].completed[2].ok

(***************************************************************************)
(* Properties of POST /image-to-3d                                         *)
(***************************************************************************)
Submitted == req.route = "POST /image-to-3d" /\ Len(upstream) = 1

\* C9: the image_url sent upstream is the data URI of the uploaded file when a
\* file is supplied, and the supplied URL otherwise, whatever else the body
\* holds.
C9_ImageUrlFromSource ==
  Submitted =>
    upstream[1].payload["image_url"] =
      IF req.file.present
        THEN Str(DataURI(IF req.file.mimetype = <<>> THEN ImagePng
                                                     ELSE req.file.mimetype,
                         req.file.buffer))
        ELSE req.body.fields["image_url"]

NoImageGiven ==
  /\ req.route = "POST /image-to-3d"
  /\ ~req.file.present
  /\ \/ ~req.body.present
     \/ req.body.fields["image_url"] \in {Undefined, Str(<<>>)}

\* C10: a request with neither a file nor a non-empty image_url is answered
\* 400 and no upstream call is made.
C10_NoImage400 ==
  NoImageGiven =>
    /\ pc = "done"
    /\ res.sent = 1
    /\ res.status = 400
    /\ upstream = <<>>

\* C10 witness: a JSON body with an empty image_url and other fields set was
\* answered 400.
C10_Witness ==
  /\ NoImageGiven
  /\ req.body.present
  /\ req.body.fields["image_url"] = Str(<<>>)
  /\ req.body.fields["should_texture"] = Bool(TRUE)
  /\ res.status = 400
(***************************************************************************)
(* Properties of POST /fashn/tryon and of the payloads                     *)
(***************************************************************************)
TryonHandled == req.route = "POST /fashn/tryon" /\ pc \in {"await", "done"}

\* C11: a try-on request missing the person file, the garment file or both is
\* answered 400 with the upload message and makes no upstream call; a request
\* with both files makes exactly one upstream submission.
C11_BothFilesRequired ==
  TryonHandled =>
    IF req.person.present /\ req.garment.present
      THEN /\ Len(upstream) = 1
           /\ upstream[1].url = "https://api.fashn.ai/v1/run"
      ELSE /\ upstream = <<>>
           /\ pc = "done"
           /\ res.sent = 1
           /\ res.status = 400
           /\ res.body = "Please upload both person and garment images."

\* C11 witness: the person file was uploaded, the garment file was not, and
\* the request was answered 400.
C11_Witness ==
  /\ TryonHandled
  /\ req.person.present
  /\ ~req.garment.present
  /\ res.status = 400

InRange1to4(v) == v.t = "number" /\ v # NaN /\ v.n >= 1 /\ v.n <= 4

\* C12: the num_samples sent by POST /fashn/tryon is a number in [1,4] for
\* every supplied value, including strings that do not parse as a number.
C12_NumSamplesClamped ==
  (TryonHandled /\ Len(upstream) = 1) =>
    InRange1to4(upstream[1].payload.num_samples)

MeshySubmitted == req.route = "POST /image-to-3d" /\ Len(upstream) = 1

TryonSubmitted == req.route = "POST /fashn/tryon" /\ Len(upstream) = 1

IsBoolean(v) == v.t = "boolean"

IsNumber(v) == v.t = "number"

\* "true" and "false" become true and false
MapsSpelling(in, out) ==
  /\ in = STrue => out = Bool(TRUE)
  /\ in = SFalse => out = Bool(FALSE)

\* C13: in every submission payload each boolean-typed field is a native
\* boolean, with "true"/"false" mapped to true/false, and each numeric-typed
\* field is a number, never a string, whatever the client supplied.
C13_TypedFieldsCoerced ==
  /\ MeshySubmitted =>
       LET body == req.body.fields
           pl   == upstream[1].payload
       IN /\ IsBoolean(pl["should_texture"])
          /\ \A k \in {"should_texture", "should_remesh"} :
               /\ body[k] # Undefined => IsBoolean(pl[k])
               /\ pl[k] # Undefined => IsBoolean(pl[k])
               /\ MapsSpelling(body[k], pl[k])
          /\ pl["target_polycount"] # Undefined => IsNumber(pl["target_polycount"])
          /\ body["target_polycount"] # Undefined => IsNumber(pl["target_polycount"])
  /\ TryonSubmitted =>
       LET body == req.body
           pl   == upstream[1].payload
       IN /\ \A k \in {"segmentation_free", "return_base64"} :
               IsBoolean(pl[k]) /\ MapsSpelling(body[k], pl[k])
          /\ IsNumber(pl.seed)
          /\ IsNumber(pl.num_samples)

\* C13 witness: a try-on submission whose segmentation_free was neither
\* spelling of a boolean and whose seed was a numeric string.
C13_Witness ==
  /\ TryonSubmitted
  /\ req.body.segmentation_free = Str(<<"y", "e", "s">>)
  /\ req.body.seed = Str(<<"7">>)
  /\ upstream[1].payload.segmentation_free = Bool(TRUE)
  /\ upstream[1].payload.seed = Num(7)

\* the fields of each endpoint that are in its boolean/number table
MeshyTable == {"should_remesh", "should_texture", "enable_pbr", "is_a_t_pose",
               "moderation", "target_polycount"}

TryonTable == {"segmentation_free", "return_base64", "seed", "num_samples"}

\* the string parameters POST /fashn/tryon reads from the body
TryonStringParams ==
  {"category", "moderation_level", "garment_photo_type", "mode", "output_format"}

ProviderRoutes ==
  {"POST /image-to-3d", "GET /image-to-3d/:taskId",
   "POST /fashn/tryon", "GET /fashn/tryon/:id"}

\* C15: a request to an endpoint that calls a provider makes at most one
\* upstream call, and when that call fails exactly one response is sent:
\* status 500 with {error}, the provider's error body when there is one and
\* the failure message otherwise.
C15_OneCallOneErrorResponse ==
  req.route \in ProviderRoutes =>
    /\ Len(upstream) <= 1
    /\ res.sent <= 1
    /\ settled.kind = "rejected" =>
         /\ Len(upstream) = 1
         /\ res.sent = 1
         /\ res.status = 500
         /\ res.kind = "error"
         /\ res.body = IF settled.data \in {"none", ""}
                         THEN settled.message ELSE settled.data

\* C15 witness: the status call of GET /fashn/tryon/:id was rejected with a
\* provider error body and the request was answered.
C15_Witness ==
  /\ req.route = "GET /fashn/tryon/:id"
  /\ settled.kind = "rejected"
  /\ settled.data = "Invalid image"
  /\ res.status = 500

(***************************************************************************)
(* Properties of GET /download                                             *)
(***************************************************************************)
DownloadHandled == req.route = "GET /download"

\* C16: GET /download without a url answers 400 and fetches nothing; a remote
\* fetch is attempted only when url is present; a failed remote fetch is
\* answered 500 with {error}.
C16_MissingUrl400 ==
  DownloadHandled =>
    /\ req.url = Undefined =>
         /\ pc = "done"
         /\ res.sent = 1
         /\ res.status = 400
         /\ upstream = <<>>
    /\ upstream # <<>> => (req.url # Undefined /\ Len(upstream) = 1)
    /\ settled.kind = "rejected" =>
         /\ res.sent = 1
         /\ res.status = 500
         /\ res.kind = "error"

\* C16 witness: a request without url was answered 400.
C16_Witness ==
  /\ DownloadHandled
  /\ req.url = Undefined
  /\ res.status = 400

\* the url up to its first "?" or "#"
RECURSIVE WithoutQueryAndFragment(_)
WithoutQueryAndFragment(cs) ==
  IF cs = <<>> \/ cs[1] \in {"?", "#"} THEN <<>>
  ELSE <<cs[1]>> \o WithoutQueryAndFragment(SubSeq(cs, 2, Len(cs)))

\* C17: the filename of Content-Disposition is the last path segment of the
\* remote URL with the query string and the fragment removed.
C17_FilenameWithoutQueryOrFragment ==
  (DownloadHandled /\ settled.kind = "resolved") =>
    /\ res.filename = basename(WithoutQueryAndFragment(upstream[1].url))
    /\ \A i \in 1..Len(res.filename) : res.filename[i] \notin {"?", "#"}

(***************************************************************************)
(* Properties of concurrent stream sessions                                *)
(***************************************************************************)
\* C18: a step of one stream session (timer tick, fetch completion, terminal
\* status, fetch failure, disconnect) leaves every other session's stop flag,
\* timer, outstanding fetches and events unchanged.
C18_SessionsIndependent ==
  [][\A s \in Sessions : \A t \in Sessions \ {s} :
       session'[s] # session[s] =>
         /\ session'[t].stopped = session[t].stopped
         /\ session'[t].interval = session[t].interval
         /\ session'[t].inflight = session[t].inflight
         /\ session'[t].events = session[t].events
         /\ session'[t] = session[t]]_vars

\* C18 witness: one session finished on a terminal status while the other is
\* open, still Active, with a fetch outstanding.
C18_Witness ==
  \E s \in Sessions : \E t \in Sessions \ {s} :
    /\ HasEvent(session[s], "finished")
    /\ session[s].stopped
    /\ session[t].open
    /\ ~session[t].stopped
    /\ session[t].interval
    /\ session[t].inflight # {}

(***************************************************************************)
(* Liveness of a stream session                                            *)
(***************************************************************************)
FinishedByTerminal(r) ==
  /\ HasEvent(r, "finished")
  /\ r.ended >= 1
  /\ r.stopped
  /\ ~r.interval

\* C19: a session whose subscriber stays connected, whose fetches all settle
\* without failure and whose provider ends up reporting a terminal status
\* eventually writes a finished event, ends the channel and is Finished; and a
\* session stops only through a terminal status, a failed fetch or a
\* disconnect.
C19_EventuallyFinished ==
  /\ [](\A s \in Sessions : session[s].stopped => Finished(session[s]))
  /\ session["s1"].open ~>
       \/ session["s1"].closed
       \/ HasEvent(session["s1"], "error")
       \/ FinishedByTerminal(session["s1"])

\* C19 witness: a connected session relayed a non-terminal status and then
\* finished on a terminal one, with no failure.
C19_Witness ==
  /\ ~session["s1"].closed
  /\ ~HasEvent(session["s1"], "error")
  /\ FinishedByTerminal(session["s1"])
  /\ Len(session["s1"].events) >= 3
  /\ session["s1"].events[1].body = "IN_PROGRESS"
====
